---- MODULE Spec2Model ----
(***************************************************************************)
(* Pointer hit-testing and hover feedback of the 3D wood-lathe viewer.     *)
(*                                                                         *)
(* Two revisions of class App are modelled side by side:                   *)
(*   "panel"   : src/baquetas/main.js   (info panel, ancestor bubbling)    *)
(*   "tooltip" : src/unnamed/part_000   (tooltip following the pointer)    *)
(*                                                                         *)
(* The scene graph is a node table with parent back-references.  The       *)
(* third-party ray caster is modelled by a small pinhole geometry: a ray   *)
(* is the pair (mouse.x * aspect, mouse.y) seen from a camera pose; every  *)
(* mesh has a rectangular footprint and a distance for each pose.          *)
(***************************************************************************)
EXTENDS Integers, Sequences, FiniteSets, TLC

VARIABLES
    rev,            \* which revision of App runs
    parent,         \* Object3D.parent of every node (Null for the scene root)
    name,           \* Object3D.name of every node ("" when unset)
    mesh,           \* the nodes that are THREE.Mesh (have a surface)
    innerWidth,     \* window.innerWidth
    innerHeight,    \* window.innerHeight
    resizePending,  \* the viewport changed and the resize event is not yet dispatched
    mouse,          \* this.mouse : [x, y], each a rational <<num, den>>
    camera,         \* this.camera : [pose, matrixWorld, aspect, projAspect]
    sphericalDelta, \* OrbitControls: rotation still to be applied (damping)
    intersects,     \* local `intersects` of the last animate() call
    target,         \* local `target` / `object` of the last animate() call
    infoBox,        \* this.infoBox.style : [opacity, transform]
    partName,       \* this.partNameDisplay.innerText
    tooltip,        \* this.tooltip : [display, innerText, left, top]
    activeLink,     \* the nav link carrying class "active"
    pc,             \* "init" before the first animate() call, then "running"
    rafPending,     \* number of registered requestAnimationFrame callbacks
    changed,        \* history: what changed since the last ray cast
    noneSeen,       \* history: feedback observed at the first frame that resolved to "none"
    lastMove,       \* history: <<pair>> written by the latest mousemove, <<>> if none yet
    stale           \* history: an event was handled since the last frame ran

vars == <<rev, parent, name, mesh, innerWidth, innerHeight, resizePending,
          mouse, camera, sphericalDelta, intersects, target, infoBox,
          partName, tooltip, activeLink, pc, rafPending, changed, noneSeen,
          lastMove, stale>>

sceneVars == <<rev, parent, name, mesh>>

(***************************************************************************)
(* Bounds of the model.                                                    *)
(***************************************************************************)
MaxNodes == 5       \* nodes of a scene when hovering alone is exercised
AppNodes == 3       \* nodes of a scene when every handler runs
MaxW == 2           \* largest viewport width in pixels
MaxH == 2           \* largest viewport height in pixels
MaxPose == 2        \* camera poses 1..MaxPose are reachable by orbiting
MaxDelta == 1       \* frames over which damping keeps rotating the camera
MaxTabs == 1        \* navigation links
Slots == 4          \* columns of the view plane on which footprints are laid out
Rows == 3           \* rows of the view plane on which footprints are laid out

(***************************************************************************)
(* Program constants.                                                      *)
(***************************************************************************)
Null == 0           \* JavaScript null (Object3D.parent of a root)
SceneNode == 1      \* this.scene
LatheGroup == 2     \* this.latheGroup
IdentityPose == 0   \* camera.matrixWorld before the first render
DefaultPose == 1    \* camera.position.set(4, 3, 6)
TooltipOffset == 15 \* tooltip is placed 15px right of / below the pointer

Nodes == DOMAIN parent
Parts == {n \in Nodes : n > LatheGroup}
Labels == {"", "A", "B"}
Widths == 1..MaxW
Heights == 1..MaxH
ClientXs == 0..MaxW
ClientYs == 0..MaxH
Poses == IdentityPose..MaxPose
Tabs == 1..MaxTabs

FarPlane == 1000    \* far clipping distance of the PerspectiveCamera

(***************************************************************************)
(* Rational numbers <<num, den>> in lowest terms with den > 0.  They stand *)
(* for the JavaScript numbers of the pointer and projection arithmetic.    *)
(***************************************************************************)
Abs(a) == IF a < 0 THEN 0 - a ELSE a

RECURSIVE GCD(_, _)
GCD(a, b) == IF b = 0 THEN a ELSE GCD(b, a % b)

Rat(n, d) ==
    LET g == GCD(Abs(n), Abs(d))
        s == IF d < 0 THEN 0 - 1 ELSE 1
    IN  <<(s * n) \div g, (s * d) \div g>>

RatOfInt(k) == <<k, 1>>
RatMul(p, q) == Rat(p[1] * q[1], p[2] * q[2])
RatAdd(p, q) == Rat(p[1] * q[2] + q[1] * p[2], p[2] * q[2])
RatSub(p, q) == Rat(p[1] * q[2] - q[1] * p[2], p[2] * q[2])
RatNeg(p) == <<0 - p[1], p[2]>>
RatLeq(p, q) == p[1] * q[2] <= q[1] * p[2]

(***************************************************************************)
(* Pointer Tracker: pixel coordinates to normalized device coordinates.    *)
(***************************************************************************)
\* mutant: the x coordinate is scaled but not shifted
NdcXNoShift(clientX, width) == RatMul(Rat(clientX, width), RatOfInt(2))

\* (event.clientX / window.innerWidth) * 2 - 1
NdcX(clientX, width) ==
    RatSub(RatMul(Rat(clientX, width), RatOfInt(2)), RatOfInt(1))

\* mutant: the y axis is not flipped
NdcYUnflipped(clientY, height) ==
    RatSub(RatMul(Rat(clientY, height), RatOfInt(2)), RatOfInt(1))

\* -(event.clientY / window.innerHeight) * 2 + 1
NdcY(clientY, height) ==
    RatAdd(RatMul(RatNeg(Rat(clientY, height)), RatOfInt(2)), RatOfInt(1))

\* the pointer arithmetic tabulated over the inputs of the model, so that
\* it is evaluated once per input
NdcXTable == [clientX \in ClientXs, width \in Widths |-> NdcX(clientX, width)]
NdcYTable == [clientY \in ClientYs, height \in Heights |-> NdcY(clientY, height)]

\* mutant: the tooltip is placed at the pointer itself
PxNoOffset(n) == <<n, "px">>

\* (event.clientX + 15) + 'px'
Px(n) == <<n + TooltipOffset, "px">>

(***************************************************************************)
(* Scene graph.                                                            *)
(***************************************************************************)
Children(n) == {c \in Nodes : parent[c] = n}

RECURSIVE Subtree(_)
Subtree(n) == {n} \cup UNION {Subtree(c) : c \in Children(n)}

\* the chain n, parent(n), parent(parent(n)), ... up to the root
RECURSIVE Chain(_)
Chain(n) == IF n = Null THEN {} ELSE {n} \cup Chain(parent[n])

(***************************************************************************)
(* Ray casting.  Raycaster.setFromCamera builds the ray from the pointer,  *)
(* the camera's projection (aspect as of the last updateProjectionMatrix)  *)
(* and the camera's world matrix (pose as of the last render).             *)
(***************************************************************************)
SetFromCamera(m, cam) ==
    [x |-> RatMul(m.x, cam.projAspect), y |-> m.y, pose |-> cam.matrixWorld]

\* Footprint of a mesh on the view plane and its distance from the camera.
\* The parts are laid out in creation order on a grid of Slots columns and
\* Rows rows, two units wide and high and one unit apart, so that
\* neighbours overlap and parts that share a cell hide one another.  Seen
\* from an odd pose the machine is mirrored and the depth order is reversed
\* (the camera has orbited to the other side).
Mirrored(pose) == pose % 2 = 1
Column(n) == (n - LatheGroup - 1) % Slots
Row(n) == ((n - LatheGroup - 1) \div Slots) % Rows
Left(n, pose) ==
    IF Mirrored(pose) THEN 0 - (Column(n) + 2) ELSE Column(n)
Right(n, pose) ==
    IF Mirrored(pose) THEN 0 - Column(n) ELSE Column(n) + 2
Bottom(n) == 0 - 2 * Row(n)
Top(n) == 2 - 2 * Row(n)
Distance(n, pose) == IF Mirrored(pose) THEN FarPlane - n ELSE n

RayHits(n, ray) ==
    /\ RatLeq(RatOfInt(Left(n, ray.pose)), ray.x)
    /\ RatLeq(ray.x, RatOfInt(Right(n, ray.pose)))
    /\ RatLeq(RatOfInt(Bottom(n)), ray.y)
    /\ RatLeq(ray.y, RatOfInt(Top(n)))

\* intersects.sort(ascSort): ascending distance
RECURSIVE SortAsc(_)
SortAsc(S) ==
    IF S = {} THEN <<>>
    ELSE LET first == CHOOSE i \in S : \A j \in S : i.distance <= j.distance
         IN  <<first>> \o SortAsc(S \ {first})

\* raycaster.intersectObjects(objects, true)
IntersectObjects(objects, ray) ==
    LET candidates == UNION {Subtree(o) : o \in objects}
        hits == {[distance |-> Distance(n, ray.pose), object |-> n] :
                    n \in {c \in candidates \cap mesh : RayHits(c, ray)}}
    IN  SortAsc(hits)

(***************************************************************************)
(* Hit Resolver.                                                           *)
(***************************************************************************)
\* mutant: the walk stops after one step
BubbleUpOnce(t) ==
    IF t # Null /\ name[t] = "" /\ parent[t] # Null THEN parent[t] ELSE t

\* while (target && !target.name && target.parent) target = target.parent;
RECURSIVE BubbleUp(_)
BubbleUp(t) ==
    IF t # Null /\ name[t] = "" /\ parent[t] # Null
    THEN BubbleUp(parent[t])
    ELSE t

\* mutant: the tooltip revision walks up to a named ancestor as well
ResolveTargetBubbling(ints) ==
    IF Len(ints) > 0 THEN BubbleUp(ints[1].object) ELSE Null

\* mutant: resolution starts from the farthest intersection
ResolveTargetFarthest(ints) ==
    IF Len(ints) > 0
    THEN IF rev = "panel" THEN BubbleUp(ints[Len(ints)].object)
                          ELSE ints[Len(ints)].object
    ELSE Null

\* the node the feedback is decided on: `target` (panel) / `object` (tooltip)
ResolveTarget(ints) ==
    IF Len(ints) > 0
    THEN IF rev = "panel" THEN BubbleUp(ints[1].object) ELSE ints[1].object
    ELSE Null

\* the Hit Result: the named node found, or Null for "none"
HitOf(t) == IF t # Null /\ name[t] # "" THEN t ELSE Null
HitResult == HitOf(target)

(***************************************************************************)
(* Feedback Presenter.                                                     *)
(***************************************************************************)
\* mutant: the panel is revealed only if it was not already revealed
PanelBoxToggle(t, box) ==
    IF t # Null /\ name[t] # "" /\ box.opacity # "1"
    THEN [opacity |-> "1", transform |-> "translateX(0)"]
    ELSE [opacity |-> "0", transform |-> "translateX(20px)"]

\* mutant: the panel is left as it is when nothing named is hit
PanelBoxSticky(t, box) ==
    IF t # Null /\ name[t] # ""
    THEN [opacity |-> "1", transform |-> "translateX(0)"]
    ELSE box

PanelBox(t, box) ==
    IF t # Null /\ name[t] # ""
    THEN [opacity |-> "1", transform |-> "translateX(0)"]
    ELSE [opacity |-> "0", transform |-> "translateX(20px)"]

\* mutant: the text is written only while the element is still empty
PanelTextOnce(t, text) ==
    IF t # Null /\ name[t] # "" /\ text = "" THEN name[t] ELSE text

PanelText(t, text) == IF t # Null /\ name[t] # "" THEN name[t] ELSE text

\* mutant: the tooltip is not hidden when nothing named is hit
TooltipShowSticky(t, tip) ==
    IF t # Null /\ name[t] # ""
    THEN [tip EXCEPT !.display = "block", !.innerText = name[t]]
    ELSE tip

TooltipShow(t, tip) ==
    IF t # Null /\ name[t] # ""
    THEN [tip EXCEPT !.display = "block", !.innerText = name[t]]
    ELSE [tip EXCEPT !.display = "none"]

Feedback(box, text, tip) ==
    IF rev = "panel"
    THEN [shown |-> box.opacity, text |-> text]
    ELSE [shown |-> tip.display, text |-> tip.innerText]

FeedbackState == Feedback(infoBox, partName, tooltip)
Visible == FeedbackState.shown \in {"1", "block"}
Hidden == FeedbackState.shown \in {"0", "none"}

(***************************************************************************)
(* Camera, controls and renderer.                                          *)
(***************************************************************************)
\* new THREE.PerspectiveCamera(75, innerWidth / innerHeight, 0.1, 1000)
\* followed by camera.position.set(4, 3, 6); the world matrix stays the
\* identity until the first render.
NewCamera(width, height) ==
    [pose |-> DefaultPose, matrixWorld |-> IdentityPose,
     aspect |-> Rat(width, height), projAspect |-> Rat(width, height)]

\* mutant: updateProjectionMatrix() is not called
OnResizeCameraStale(cam, width, height) ==
    [cam EXCEPT !.aspect = Rat(width, height)]

\* camera.aspect = innerWidth / innerHeight; camera.updateProjectionMatrix()
OnResizeCamera(cam, width, height) ==
    [cam EXCEPT !.aspect = Rat(width, height),
                !.projAspect = Rat(width, height)]

NextPose(pose) == IF pose >= MaxPose THEN DefaultPose ELSE pose + 1

\* controls.update(): with damping the remaining rotation is applied a
\* step at a time
ControlsUpdate(cam, delta) ==
    IF delta > 0
    THEN [cam |-> [cam EXCEPT !.pose = NextPose(cam.pose)], delta |-> delta - 1]
    ELSE [cam |-> cam, delta |-> delta]

\* renderer.render(scene, camera): camera.updateMatrixWorld()
Render(cam) == [cam EXCEPT !.matrixWorld = cam.pose]

(***************************************************************************)
(* Initial state: the App constructor and init() have run up to, and not   *)
(* including, the first call of animate().                                 *)
(***************************************************************************)
\* a tree: the scene root holds latheGroup, which holds the parts
TreeOK ==
    /\ parent[SceneNode] = Null
    /\ parent[LatheGroup] = SceneNode
    /\ \A n \in Parts : parent[n] \in LatheGroup..(n - 1)

\* the scene root and latheGroup are never given a name; labels are taken
\* up to renaming ("B" is used only after "A")
NamesOK ==
    /\ name[SceneNode] = ""
    /\ name[LatheGroup] = ""
    /\ \A n \in Parts : name[n] = "B" =>
            \E m \in Parts : m < n /\ name[m] = "A"

\* the constructor and init() apart from the scene
InitApp ==
    /\ innerWidth \in Widths
    /\ innerHeight \in Heights
    /\ resizePending = FALSE
    /\ mouse = [x |-> RatOfInt(0), y |-> RatOfInt(0)]
    /\ camera = NewCamera(innerWidth, innerHeight)
    /\ sphericalDelta = 0
    /\ intersects = <<>>
    /\ target = Null
    /\ infoBox = [opacity |-> "", transform |-> ""]
    /\ partName = ""
    /\ tooltip = [display |-> "", innerText |-> "", left |-> <<>>, top |-> <<>>]
    /\ activeLink = Null
    /\ pc = "init"
    /\ rafPending = 0
    /\ changed = {}
    /\ noneSeen = <<>>
    /\ lastMove = <<>>
    /\ stale = FALSE

InitOf(size) ==
    /\ rev \in {"panel", "tooltip"}
    /\ parent \in [1..size -> {Null} \cup 1..size]
    /\ TreeOK
    /\ name \in [1..size -> Labels]
    /\ NamesOK
    /\ mesh = Parts
    /\ InitApp

Init == InitOf(AppNodes)

(***************************************************************************)
(* animate(): one frame.                                                   *)
(***************************************************************************)
\* mutant: the scene is rendered before the hit test instead of after it
AnimateRenderFirst ==
    /\ intersects' = IntersectObjects(Children(LatheGroup),
                                      SetFromCamera(mouse, Render(ControlsUpdate(camera, sphericalDelta).cam)))
    /\ target' = ResolveTarget(intersects')
    /\ infoBox' = IF rev = "panel" THEN PanelBox(target', infoBox) ELSE infoBox
    /\ partName' = IF rev = "panel" THEN PanelText(target', partName)
                                    ELSE partName
    /\ tooltip' = IF rev = "tooltip" THEN TooltipShow(target', tooltip)
                                     ELSE tooltip
    /\ sphericalDelta' = ControlsUpdate(camera, sphericalDelta).delta
    /\ camera' = Render(ControlsUpdate(camera, sphericalDelta).cam)
    /\ changed' = IF camera'.matrixWorld # camera.matrixWorld
                  THEN {"view"} ELSE {}
    /\ noneSeen' = IF HitOf(target') = Null /\ noneSeen = <<>>
                   THEN <<Feedback(infoBox', partName', tooltip')>>
                   ELSE noneSeen
    /\ stale' = FALSE
    /\ UNCHANGED <<sceneVars, innerWidth, innerHeight, resizePending,
                   mouse, activeLink, lastMove>>

\* setFromCamera, intersectObjects, the resolver, the presenter,
\* controls.update() and renderer.render(), in the order of the source
Animate ==
    /\ intersects' = IntersectObjects(Children(LatheGroup),
                                      SetFromCamera(mouse, camera))
    /\ target' = ResolveTarget(intersects')
    /\ infoBox' = IF rev = "panel" THEN PanelBox(target', infoBox) ELSE infoBox
    /\ partName' = IF rev = "panel" THEN PanelText(target', partName)
                                    ELSE partName
    /\ tooltip' = IF rev = "tooltip" THEN TooltipShow(target', tooltip)
                                     ELSE tooltip
    /\ sphericalDelta' = ControlsUpdate(camera, sphericalDelta).delta
    /\ camera' = Render(ControlsUpdate(camera, sphericalDelta).cam)
    /\ changed' = IF camera'.matrixWorld # camera.matrixWorld
                  THEN {"view"} ELSE {}
    /\ noneSeen' = IF HitOf(target') = Null /\ noneSeen = <<>>
                   THEN <<Feedback(infoBox', partName', tooltip')>>
                   ELSE noneSeen
    /\ stale' = FALSE
    /\ UNCHANGED <<sceneVars, innerWidth, innerHeight, resizePending,
                   mouse, activeLink, lastMove>>

\* init(): this.animate() -- the first frame, run synchronously
InitAnimate ==
    /\ pc = "init"
    /\ pc' = "running"
    /\ rafPending' = rafPending + 1
    /\ Animate

\* mutant: the callback runs the frame without registering the next one
FrameNoReschedule ==
    /\ pc = "running"
    /\ rafPending > 0
    /\ ~resizePending
    /\ pc' = pc
    /\ rafPending' = rafPending - 1
    /\ Animate

\* the callback registered by requestAnimationFrame fires; the host runs
\* animation frame callbacks after it has dispatched a pending resize event
Frame ==
    /\ pc = "running"
    /\ rafPending > 0
    /\ ~resizePending
    /\ pc' = pc
    /\ rafPending' = (rafPending - 1) + 1
    /\ Animate

(***************************************************************************)
(* Event handlers.                                                         *)
(***************************************************************************)
\* mutant: the handler stores x and leaves y as the previous event wrote it
onMouseMoveTorn(clientX, clientY) ==
    /\ pc = "running"
    /\ UNCHANGED <<pc, rafPending, resizePending, innerWidth, innerHeight,
                   activeLink, sphericalDelta, target, camera, intersects,
                   infoBox, partName, noneSeen, sceneVars>>
    /\ mouse' = [x |-> NdcXTable[clientX, innerWidth], y |-> mouse.y]
    /\ tooltip' = IF rev = "tooltip"
                  THEN [tooltip EXCEPT !.left = Px(clientX), !.top = Px(clientY)]
                  ELSE tooltip
    /\ changed' = IF mouse' # mouse THEN changed \cup {"view"} ELSE changed
    /\ lastMove' = <<[x |-> NdcXTable[clientX, innerWidth],
                      y |-> NdcYTable[clientY, innerHeight]]>>
    /\ stale' = TRUE

onMouseMove(clientX, clientY) ==
    /\ pc = "running"
    /\ UNCHANGED <<pc, rafPending, resizePending, innerWidth, innerHeight,
                   activeLink, sphericalDelta, target, camera, intersects,
                   infoBox, partName, noneSeen, sceneVars>>
    /\ mouse' = [x |-> NdcXTable[clientX, innerWidth],
                 y |-> NdcYTable[clientY, innerHeight]]
    /\ tooltip' = IF rev = "tooltip"
                  THEN [tooltip EXCEPT !.left = Px(clientX), !.top = Px(clientY)]
                  ELSE tooltip
    /\ changed' = IF mouse' # mouse THEN changed \cup {"view"} ELSE changed
    /\ lastMove' = <<[x |-> NdcXTable[clientX, innerWidth],
                      y |-> NdcYTable[clientY, innerHeight]]>>
    /\ stale' = TRUE

\* the user resizes the window: the viewport changes, a resize event is due
ViewportChange(width, height) ==
    /\ pc = "running"
    /\ <<width, height>> # <<innerWidth, innerHeight>>
    /\ innerWidth' = width
    /\ innerHeight' = height
    /\ resizePending' = TRUE
    /\ stale' = TRUE
    /\ UNCHANGED <<sceneVars, mouse, camera, sphericalDelta, intersects,
                   target, infoBox, partName, tooltip, activeLink, pc,
                   rafPending, changed, noneSeen, lastMove>>

onResize ==
    /\ pc = "running"
    /\ resizePending
    /\ resizePending' = FALSE
    /\ camera' = OnResizeCamera(camera, innerWidth, innerHeight)
    /\ changed' = IF camera'.projAspect # camera.projAspect
                  THEN changed \cup {"projection"} ELSE changed
    /\ stale' = TRUE
    /\ UNCHANGED <<sceneVars, innerWidth, innerHeight, mouse, sphericalDelta,
                   intersects, target, infoBox, partName, tooltip, activeLink,
                   pc, rafPending, noneSeen, lastMove>>

\* OrbitControls' own pointer handler: a drag rotates the camera at once
\* and leaves a remainder that later update() calls apply (enableDamping)
OrbitDrag ==
    /\ pc = "running"
    /\ camera' = [camera EXCEPT !.pose = NextPose(camera.pose)]
    /\ sphericalDelta' = MaxDelta
    /\ stale' = TRUE
    /\ UNCHANGED <<sceneVars, innerWidth, innerHeight, resizePending, mouse,
                   intersects, target, infoBox, partName, tooltip, activeLink,
                   pc, rafPending, changed, noneSeen, lastMove>>

\* mutant: a click on a nav link also detaches the machine from the scene
NavClickDetach(link) ==
    /\ pc = "running"
    /\ rev = "panel"
    /\ activeLink' = link
    /\ parent' = [parent EXCEPT ![LatheGroup] = Null]
    /\ stale' = TRUE
    /\ UNCHANGED <<rev, name, mesh, innerWidth, innerHeight, resizePending,
                   mouse, camera, sphericalDelta, intersects, target, infoBox,
                   partName, tooltip, pc, rafPending, changed, noneSeen,
                   lastMove>>

\* initNavigation(): click on a nav link (panel revision only)
NavClick(link) ==
    /\ pc = "running"
    /\ rev = "panel"
    /\ activeLink' = link
    /\ stale' = TRUE
    /\ UNCHANGED <<sceneVars, innerWidth, innerHeight, resizePending, mouse,
                   camera, sphericalDelta, intersects, target, infoBox,
                   partName, tooltip, pc, rafPending, changed, noneSeen,
                   lastMove>>

MouseMove == \E clientX \in ClientXs, clientY \in ClientYs : onMouseMove(clientX, clientY)
Resize == \E width \in Widths, height \in Heights : ViewportChange(width, height)
Navigate == \E link \in Tabs : NavClick(link)

Next ==
    \/ InitAnimate
    \/ Frame
    \/ MouseMove
    \/ Resize
    \/ onResize
    \/ OrbitDrag
    \/ Navigate

Spec == Init /\ [][Next]_vars

(***************************************************************************)
(* Scheduling of the host: the constructor runs to its end, a pending      *)
(* resize event is dispatched, and a registered animation frame callback   *)
(* is run at the next display refresh however often events arrive between. *)
(* The events are mousemove and resize.                                    *)
(***************************************************************************)
NextLive ==
    \/ InitAnimate
    \/ Frame
    \/ MouseMove
    \/ Resize
    \/ onResize

SpecLive ==
    /\ Init
    /\ [][NextLive]_vars
    /\ WF_vars(InitAnimate)
    /\ WF_vars(onResize)
    /\ SF_vars(Frame)

(***************************************************************************)
(* Hovering on larger scenes: frames, pointer moves and camera orbiting in *)
(* a viewport that keeps its size.  Spec runs every handler on the         *)
(* smallest scenes; this one runs the handlers that decide what is hit and *)
(* shown on scenes deep enough for the ancestor walk.                      *)
(***************************************************************************)
InitResolver == InitOf(MaxNodes)

NextResolver ==
    \/ InitAnimate
    \/ Frame
    \/ MouseMove
    \/ OrbitDrag

SpecResolver == InitResolver /\ [][NextResolver]_vars

(***************************************************************************)
(* The machine createLathe() builds, node by node in creation order: its   *)
(* parent, its name and whether it is a THREE.Mesh (the others are the     *)
(* scene and THREE.Group nodes).  Accents are dropped from the names.  The *)
(* lights, added to the scene directly, are outside latheGroup and are     *)
(* left out.                                                               *)
(***************************************************************************)
PanelLathe ==
    <<
       \* 1: this.scene
       [parent |-> 0, name |-> "", mesh |-> FALSE],
       \* 2: this.latheGroup
       [parent |-> 1, name |-> "", mesh |-> FALSE],
       \* 3: beam1
       [parent |-> 2, name |-> "Bancada (Viga 1)", mesh |-> TRUE],
       \* 4: beam2
       [parent |-> 2, name |-> "Bancada (Viga 2)", mesh |-> TRUE],
       \* 5: headstockBase
       [parent |-> 2, name |-> "Base del Cabezal", mesh |-> TRUE],
       \* 6: this.spindleGroup
       [parent |-> 2, name |-> "", mesh |-> FALSE],
       \* 7: shaft
       [parent |-> 6, name |-> "Eje del Cabezal", mesh |-> TRUE],
       \* 8: this.spindlePulley
       [parent |-> 6, name |-> "Polea del Cabezal", mesh |-> TRUE],
       \* 9: chuck
       [parent |-> 6, name |-> "Mandril / Plato", mesh |-> TRUE],
       \* 10: driveCenter
       [parent |-> 6, name |-> "", mesh |-> FALSE],
       \* 11: dcBase
       [parent |-> 10, name |-> "Base del Punto de Arrastre", mesh |-> TRUE],
       \* 12: dcPoint
       [parent |-> 10, name |-> "Punto de Arrastre (Punta)", mesh |-> TRUE],
       \* 13: tsGroup
       [parent |-> 2, name |-> "", mesh |-> FALSE],
       \* 14: tsSled
       [parent |-> 13, name |-> "Suela Deslizable del Contrapunto", mesh |-> TRUE],
       \* 15: tsGuide
       [parent |-> 13, name |-> "Guia de Alineacion inferior", mesh |-> TRUE],
       \* 16: bearingHousing
       [parent |-> 13, name |-> "Alojamiento del Rodamiento", mesh |-> TRUE],
       \* 17: createTSBrace()
       [parent |-> 13, name |-> "Escuadra de Refuerzo", mesh |-> TRUE],
       \* 18: createTSBrace()
       [parent |-> 13, name |-> "Escuadra de Refuerzo", mesh |-> TRUE],
       \* 19: clampGroup
       [parent |-> 13, name |-> "", mesh |-> FALSE],
       \* 20: clampBase
       [parent |-> 19, name |-> "Soporte de Fijacion", mesh |-> TRUE],
       \* 21: bolt
       [parent |-> 19, name |-> "Tornillo de Apriete", mesh |-> TRUE],
       \* 22: handleGroup
       [parent |-> 19, name |-> "", mesh |-> FALSE],
       \* 23: handleCenter
       [parent |-> 22, name |-> "Manija de Fijacion", mesh |-> TRUE],
       \* 24: lever1
       [parent |-> 22, name |-> "Manija de Fijacion", mesh |-> TRUE],
       \* 25: lever2
       [parent |-> 22, name |-> "Manija de Fijacion", mesh |-> TRUE],
       \* 26: bearing
       [parent |-> 13, name |-> "Rodamiento de Bolas", mesh |-> TRUE],
       \* 27: liveCenter
       [parent |-> 13, name |-> "", mesh |-> FALSE],
       \* 28: lcPoint
       [parent |-> 27, name |-> "Punto Giratorio (Punta)", mesh |-> TRUE],
       \* 29: lcBase
       [parent |-> 27, name |-> "Base de la Punta", mesh |-> TRUE],
       \* 30: this.motorGroup
       [parent |-> 2, name |-> "", mesh |-> FALSE],
       \* 31: motorBody
       [parent |-> 30, name |-> "Motor Electrico (Cuerpo)", mesh |-> TRUE],
       \* 32: motorShaft
       [parent |-> 30, name |-> "Eje del Motor", mesh |-> TRUE],
       \* 33: this.motorPulley
       [parent |-> 30, name |-> "Polea del Motor", mesh |-> TRUE],
       \* 34: beltVisual
       [parent |-> 2, name |-> "Correa de Transmision", mesh |-> TRUE],
       \* 35: woodPiece
       [parent |-> 6, name |-> "Pieza de Trabajo (Madera)", mesh |-> TRUE],
       \* 36: basePlate
       [parent |-> 2, name |-> "Base de la Bancada", mesh |-> TRUE],
       \* 37: this.toolRestGroup
       [parent |-> 2, name |-> "", mesh |-> FALSE],
       \* 38: theRest
       [parent |-> 37, name |-> "Apoyo en T (Base)", mesh |-> TRUE],
       \* 39: slitGroup
       [parent |-> 37, name |-> "", mesh |-> FALSE],
       \* 40: stripBottom
       [parent |-> 39, name |-> "Sistema de Rendija", mesh |-> TRUE],
       \* 41: stripTop
       [parent |-> 39, name |-> "Sistema de Rendija", mesh |-> TRUE],
       \* 42: connLeft
       [parent |-> 39, name |-> "Sistema de Rendija", mesh |-> TRUE],
       \* 43: connRight
       [parent |-> 39, name |-> "Sistema de Rendija", mesh |-> TRUE],
       \* 44: wallLeft
       [parent |-> 39, name |-> "Sistema de Rendija", mesh |-> TRUE],
       \* 45: wallRight
       [parent |-> 39, name |-> "Sistema de Rendija", mesh |-> TRUE],
       \* 46: createBrace()
       [parent |-> 39, name |-> "Sistema de Rendija", mesh |-> TRUE],
       \* 47: createBrace()
       [parent |-> 39, name |-> "Sistema de Rendija", mesh |-> TRUE]
    >>

TooltipLathe ==
    <<
       \* 1: this.scene
       [parent |-> 0, name |-> "", mesh |-> FALSE],
       \* 2: this.latheGroup
       [parent |-> 1, name |-> "", mesh |-> FALSE],
       \* 3: beam1
       [parent |-> 2, name |-> "Bancada (Viga 1)", mesh |-> TRUE],
       \* 4: beam2
       [parent |-> 2, name |-> "Bancada (Viga 2)", mesh |-> TRUE],
       \* 5: headstockBase
       [parent |-> 2, name |-> "Base del Cabezal", mesh |-> TRUE],
       \* 6: this.spindleGroup
       [parent |-> 2, name |-> "", mesh |-> FALSE],
       \* 7: shaft
       [parent |-> 6, name |-> "Eje del Cabezal", mesh |-> TRUE],
       \* 8: this.spindlePulley
       [parent |-> 6, name |-> "Polea del Cabezal", mesh |-> TRUE],
       \* 9: chuck
       [parent |-> 6, name |-> "Mandril / Plato", mesh |-> TRUE],
       \* 10: tsGroup
       [parent |-> 2, name |-> "", mesh |-> FALSE],
       \* 11: tsBase
       [parent |-> 10, name |-> "Base del Contrapunto", mesh |-> TRUE],
       \* 12: tsPoint
       [parent |-> 10, name |-> "Punto Giratorio / Contrapunta", mesh |-> TRUE],
       \* 13: this.motorGroup
       [parent |-> 2, name |-> "", mesh |-> FALSE],
       \* 14: motorBody
       [parent |-> 13, name |-> "Motor Electrico (Cuerpo)", mesh |-> TRUE],
       \* 15: motorShaft
       [parent |-> 13, name |-> "Eje del Motor", mesh |-> TRUE],
       \* 16: this.motorPulley
       [parent |-> 13, name |-> "Polea del Motor", mesh |-> TRUE],
       \* 17: beltVisual
       [parent |-> 2, name |-> "Correa de Transmision", mesh |-> TRUE],
       \* 18: woodPiece
       [parent |-> 6, name |-> "Pieza de Trabajo (Madera)", mesh |-> TRUE]
    >>

\* mutant: the spindle shaft is created without a name
LatheNodeNamelessShaft(r, n) ==
    LET node == IF r = "panel" THEN PanelLathe[n] ELSE TooltipLathe[n]
    IN  IF node.name = "Eje del Cabezal" THEN [node EXCEPT !.name = ""]
        ELSE node

LatheSize(r) == IF r = "panel" THEN Len(PanelLathe) ELSE Len(TooltipLathe)
LatheNode(r, n) == IF r = "panel" THEN PanelLathe[n] ELSE TooltipLathe[n]

InitLathe ==
    /\ rev \in {"panel", "tooltip"}
    /\ parent = [n \in 1..LatheSize(rev) |-> LatheNode(rev, n).parent]
    /\ name = [n \in 1..LatheSize(rev) |-> LatheNode(rev, n).name]
    /\ mesh = {n \in 1..LatheSize(rev) : LatheNode(rev, n).mesh}
    /\ InitApp

SpecLathe == InitLathe /\ [][NextResolver]_vars

TypeOK ==
    /\ pc \in {"init", "running"}
    /\ target \in {Null} \cup Nodes
    /\ camera.pose \in Poses /\ camera.matrixWorld \in Poses
    /\ sphericalDelta \in 0..MaxDelta

(***************************************************************************)
(* Properties.                                                             *)
(***************************************************************************)
Started == pc = "running"
First == intersects[1]

\* the labeled node of Chain(n) that lies below every other labeled node of
\* the chain, Null when the chain carries no label
NearestLabeled(n) ==
    LET labeled == {m \in Chain(n) : name[m] # ""}
    IN  IF labeled = {} THEN Null
        ELSE CHOOSE m \in labeled : \A k \in labeled : k \in Chain(m)

\* C1: in the panel revision, after a frame with a non-empty intersection
\* list the Hit Result is the nearest labeled node on the parent chain of
\* the hit node (the hit node itself when labeled), and it is "none"
\* exactly when no node of that chain carries a label.
C1_NearestLabeledOnChain ==
    (Started /\ rev = "panel" /\ Len(intersects) > 0) =>
        /\ HitResult = NearestLabeled(First.object)
        /\ (HitResult = Null) <=> (\A m \in Chain(First.object) : name[m] = "")

\* C1 witness: an unlabeled hit node resolved to a labeled ancestor that is
\* two levels up
C1_Witness ==
    /\ Started /\ rev = "panel" /\ Len(intersects) > 0
    /\ name[First.object] = ""
    /\ name[parent[First.object]] = ""
    /\ HitResult # Null
    /\ HitResult = parent[parent[First.object]]

\* C2: after a frame whose Hit Result is a named node the feedback element
\* is visible and its text is exactly that node's label.
C2_NamedHitIsShown ==
    (Started /\ HitResult # Null) =>
        /\ Visible
        /\ FeedbackState.text = name[HitResult]
        /\ rev = "panel" => (infoBox.opacity = "1" /\ partName = name[HitResult])
        /\ rev = "tooltip" =>
               (tooltip.display = "block" /\ tooltip.innerText = name[HitResult])

\* C2 witness: a named hit is shown after the element had been hidden by an
\* earlier frame, in a scene with a second, different label
C2_Witness ==
    /\ Started /\ HitResult # Null /\ Visible
    /\ noneSeen # <<>>
    /\ name[HitResult] = "B"

\* C3: after a frame whose ray intersects no surface the Hit Result is
\* "none" and the feedback element is hidden.
C3_NoIntersectionIsHidden ==
    (Started /\ Len(intersects) = 0) =>
        /\ HitResult = Null
        /\ Hidden
        /\ rev = "panel" => infoBox.opacity = "0"
        /\ rev = "tooltip" => tooltip.display = "none"

\* C3 witness: a frame without intersection hid an element that an earlier
\* frame had made visible (its text is still the earlier label)
C3_Witness ==
    /\ Started /\ Len(intersects) = 0 /\ Hidden
    /\ FeedbackState.text # ""

C5_PointerIsNormalized ==
    [][\A clientX \in ClientXs, clientY \in ClientYs :
          onMouseMove(clientX, clientY) =>
              /\ mouse'.x[2] > 0 /\ mouse'.y[2] > 0
              /\ mouse'.x[1] * innerWidth = (2 * clientX - innerWidth) * mouse'.x[2]
              /\ mouse'.y[1] * innerHeight = (innerHeight - 2 * clientY) * mouse'.y[2]]_vars

\* C5 witness: a pointer move below and right of the viewport centre has
\* been handled
C5_Witness ==
    /\ Started
    /\ mouse.x[1] > 0
    /\ mouse.y[1] < 0

\* C6: once the scene is built no frame, pointer move, resize or navigation
\* click changes the set of nodes, a node's parent or children, a node's
\* label or which nodes are meshes.
C6_SceneIsReadOnly ==
    [][/\ parent' = parent
       /\ name' = name
       /\ mesh' = mesh
       /\ \A n \in Nodes : {c \in DOMAIN parent' : parent'[c] = n} = Children(n)]_vars

\* C6 witness: frames, a pointer move, a handled resize and a navigation
\* click have all happened
C6_Witness ==
    /\ Started
    /\ Len(intersects) > 0
    /\ mouse # [x |-> RatOfInt(0), y |-> RatOfInt(0)]
    /\ "projection" \in changed
    /\ activeLink # Null

\* C7 as stated: a frame before which neither the Pointer State nor the
\* camera transform changed since the previous frame's ray cast ends with
\* the same Hit Result and the same feedback state as the previous frame.
C7_IdempotentGivenPointerAndTransform ==
    [][(Frame /\ "view" \notin changed) =>
          /\ HitResult' = HitResult
          /\ FeedbackState' = FeedbackState]_vars

\* C7 amended: a frame before which neither the Pointer State, nor the
\* camera transform, nor the camera projection (the aspect ratio a resize
\* event applies) changed since the previous frame's ray cast ends with the
\* same intersections, Hit Result and feedback state as the previous frame.
C7_IdempotentGivenPointerAndCamera ==
    [][(Frame /\ changed = {}) =>
          /\ intersects' = intersects
          /\ HitResult' = HitResult
          /\ FeedbackState' = FeedbackState
          /\ infoBox' = infoBox /\ partName' = partName /\ tooltip' = tooltip]_vars

\* C7 witness: two frames ran with nothing changed in between and a named
\* part is shown
C7_Witness ==
    /\ Started
    /\ changed = {}
    /\ camera.matrixWorld = camera.pose
    /\ HitResult # Null
    /\ Visible

C9_PointerMoveWritesPointerOnly ==
    [][MouseMove => UNCHANGED <<infoBox, partName, tooltip, camera,
                               sphericalDelta, sceneVars>>]_vars

\* C9 amended: a pointer-move event leaves the feedback element's
\* visibility and text, the camera and the scene unchanged; in the tooltip
\* revision it also moves the tooltip to 15px right of and below the
\* pointer, in the panel revision it leaves the feedback element untouched.
C9_PointerMoveWritesPointerAndTooltipPosition ==
    [][\A clientX \in ClientXs, clientY \in ClientYs :
          onMouseMove(clientX, clientY) =>
              /\ UNCHANGED <<infoBox, partName, camera, sphericalDelta, sceneVars>>
              /\ tooltip'.display = tooltip.display
              /\ tooltip'.innerText = tooltip.innerText
              /\ rev = "panel" => tooltip' = tooltip
              /\ rev = "tooltip" =>
                     /\ tooltip'.left = <<clientX + 15, "px">>
                     /\ tooltip'.top = <<clientY + 15, "px">>]_vars

\* C9 witness: in the tooltip revision a pointer move has placed the
\* tooltip while it was visible
C9_Witness ==
    /\ Started
    /\ rev = "tooltip"
    /\ tooltip.left # <<>>
    /\ tooltip.display = "block"
    /\ "view" \in changed

C11_HiddenBeforeAnyPointerMove ==
    (Started /\ lastMove = <<>>) => Hidden

InUnit(q) == RatLeq(RatOfInt(0 - 1), q) /\ RatLeq(q, RatOfInt(1))

\* C12 (as stated): in every reachable state both components of the Pointer
\* State lie in [-1, 1].
C12_PointerInUnitSquare ==
    InUnit(mouse.x) /\ InUnit(mouse.y)

\* C12 (amended): a mousemove leaves a component of the Pointer State in
\* [-1, 1] exactly when the event's coordinate lies within the viewport
\* (0 <= clientX <= innerWidth, 0 <= clientY <= innerHeight); no other step
\* (frame, resize, orbiting, navigation) changes the Pointer State.
C12_PointerInUnitSquareIffInViewport ==
    [][/\ \A clientX \in ClientXs, clientY \in ClientYs :
            onMouseMove(clientX, clientY) =>
                /\ InUnit(mouse'.x) <=> clientX <= innerWidth
                /\ InUnit(mouse'.y) <=> clientY <= innerHeight
       /\ (mouse' # mouse) => MouseMove]_vars

\* the pointer sits on the right-hand bottom corner of the viewport, written
\* by a mousemove, and a frame has run since
C12_Witness ==
    /\ Started
    /\ lastMove # <<>>
    /\ ~stale
    /\ mouse = [x |-> RatOfInt(1), y |-> RatOfInt(0 - 1)]

\* the objects of an intersection list
Objects(ints) == {ints[i].object : i \in 1..Len(ints)}

\* C13: every frame runs read Pointer State -> Hit Resolver -> Feedback
\* Presenter -> render once, in this order: the hit test sees the pointer as
\* it is when the frame starts and the camera as the previous frame rendered
\* it (this frame's render has not run yet), the feedback the frame leaves is
\* the one of the target resolved in this very frame, and the render at the
\* end brings the camera's world matrix up to date with controls.update().
C13_FrameOrder ==
    [][(InitAnimate \/ Frame) =>
        LET ray == [x |-> RatMul(mouse.x, camera.projAspect), y |-> mouse.y,
                    pose |-> camera.matrixWorld]
            below == Subtree(LatheGroup) \ {LatheGroup}
        IN  /\ Objects(intersects') = {n \in below \cap mesh : RayHits(n, ray)}
            /\ HitOf(target') = IF intersects' = <<>> THEN Null
                                 ELSE IF rev = "panel"
                                      THEN NearestLabeled(intersects'[1].object)
                                      ELSE HitOf(intersects'[1].object)
            /\ Visible' <=> HitOf(target') # Null
            /\ Visible' => FeedbackState'.text = name[target']
            /\ camera'.pose = IF sphericalDelta > 0 THEN NextPose(camera.pose)
                                                    ELSE camera.pose
            /\ camera'.matrixWorld = camera'.pose]_vars

\* a frame has just run whose render moved the camera: the part it reports
\* is not under the pointer any more as the camera is now
C13_Witness ==
    /\ Started
    /\ ~stale
    /\ Visible
    /\ "view" \in changed
    /\ ~RayHits(target, SetFromCamera(mouse, camera))

\* C14: in the tooltip revision a frame whose nearest hit is a mesh without
\* a label leaves the tooltip hidden, whether or not an ancestor of the mesh
\* is labeled; the tooltip is shown only when the hit mesh itself is
\* labeled, and then with that mesh's label.
C14_TooltipNoBubbling ==
    (rev = "tooltip" /\ Started /\ intersects # <<>>) =>
        /\ Visible <=> name[First.object] # ""
        /\ Visible => FeedbackState.text = name[First.object]
        /\ name[First.object] = "" => Hidden

\* the nearest hit is an unlabeled mesh below a labeled part, and the
\* tooltip is hidden
C14_Witness ==
    /\ rev = "tooltip"
    /\ Started
    /\ intersects # <<>>
    /\ name[First.object] = ""
    /\ NearestLabeled(First.object) # Null
    /\ Hidden

\* the pair the latest mousemove wrote, (0, 0) before the first one
LatestPair ==
    IF lastMove = <<>> THEN [x |-> RatOfInt(0), y |-> RatOfInt(0)]
    ELSE lastMove[1]

\* C15: under every interleaving of mousemove events and frames, the pair a
\* frame hit-tests is the pair written by the latest mousemove handled
\* before it ((0, 0) if there was none): x and y come from the same event
\* and earlier positions are overwritten.
C15_FrameSeesLatestPair ==
    [][(InitAnimate \/ Frame) =>
        LET below == Subtree(LatheGroup) \ {LatheGroup}
        IN  /\ mouse = LatestPair
            /\ Objects(intersects') =
                    {n \in below \cap mesh :
                        RayHits(n, SetFromCamera(LatestPair, camera))}]_vars

\* a frame has run after a mousemove that moved the pointer off both axes,
\* and it hit a part there
C15_Witness ==
    /\ Started
    /\ ~stale
    /\ lastMove # <<>>
    /\ LatestPair.x # RatOfInt(0)
    /\ LatestPair.y # RatOfInt(0)
    /\ intersects # <<>>

\* C16: the frame loop neither stops nor multiplies: from the end of init()
\* on exactly one animation frame callback is pending, and under fair
\* scheduling frames keep occurring: the first frame runs, and whenever an
\* event has been handled a frame runs after it.
C16_OneCallbackPendingAndFramesRecur ==
    /\ [](Started => rafPending = 1)
    /\ <>Started
    /\ stale ~> ~stale

\* the loop has gone round: a frame has run after an event was handled,
\* and its successor is registered
C16_Witness ==
    /\ Started
    /\ rafPending = 1
    /\ ~stale
    /\ lastMove # <<>>
    /\ ~resizePending

\* C17: in the machine createLathe() builds, the meshes are exactly the
\* named nodes (the scene and the groups carry no name), so every frame
\* whose intersection list is not empty ends with the feedback shown and
\* carrying the label of the nearest hit mesh itself: the resolved target
\* is that mesh (the ancestor walk of the panel revision does not move) and
\* the branch "hit but no label" is never taken.
C17_LatheHitIsAlwaysLabeled ==
    /\ \A n \in Nodes : n \in mesh <=> name[n] # ""
    /\ (Started /\ intersects # <<>>) =>
            /\ target = First.object
            /\ name[First.object] # ""
            /\ Visible
            /\ FeedbackState.text = name[First.object]

\* the panel revision reports a mesh that lies three groups deep, below
\* unnamed groups only
C17_Witness ==
    /\ rev = "panel"
    /\ Started
    /\ intersects # <<>>
    /\ parent[First.object] # LatheGroup
    /\ parent[parent[First.object]] # LatheGroup
    /\ Visible
    /\ partName = name[First.object]

====
